---- MODULE Spec2Model ----
(***************************************************************************)
(* Model of cline-issue-reporter (src/src/index.ts): the request handler   *)
(* for preview_cline_issue / report_cline_issue, the metadata locator      *)
(* getApiMetadata, and the shell escaping of the gh command line.          *)
(*                                                                         *)
(* Strings are sequences of tokens.  A token is either one shell-special   *)
(* character ("'", " ", ";", ...) or a run of ordinary characters.  The    *)
(* empty sequence is the empty string.  JavaScript's undefined is Undef.   *)
(***************************************************************************)
EXTENDS Integers, Sequences, FiniteSets, TLC

VARIABLES
    \* ---- request handler (one request at a time) ----
    pc,             \* position of the handler
    req,            \* request.params: name and arguments
    meta,           \* what getApiMetadata gave, with the OS strings
    probeIdx,       \* index into ides of the next IDE to probe
    clineVersion,   \* "unknown" or the version matched
    formattedBody,  \* the issue body
    ghCommand,      \* the command line handed to execAsync
    log,            \* external effects performed for this request, in order
    response,       \* what the handler returned or threw
    \* ---- escapeShellArg checked on its own ----
    escArg, escCmd, escArgv, escPc,
    \* ---- candidate scan of getApiMetadata checked on its own ----
    scanEnv, scanResult,
    \* ---- sidecar reading of getApiMetadata checked on its own ----
    sidecar, readResult

vars == << pc, req, meta, probeIdx, clineVersion, formattedBody, ghCommand,
           log, response, escArg, escCmd, escArgv, escPc,
           scanEnv, scanResult, sidecar, readResult >>

handlerVars == << pc, req, meta, probeIdx, clineVersion, formattedBody,
                  ghCommand, log, response >>
escVars     == << escArg, escCmd, escArgv, escPc >>
scanVars    == << scanEnv, scanResult >>
readVars    == << sidecar, readResult >>

Undef == "undefined"
None  == "none"

\* ------------------------------------------------------------------ bounds
MaxLen     == 3   \* longest argument string tried against the shell
MaxTask    == 2   \* task directories are named 0..MaxTask, and 010
MaxEntries == 3   \* longest model_usage list
MaxTs      == 5   \* largest timestamp

\* ------------------------------------------------- shell-special tokens
SQ == "'"           \* single quote
DQ == "dquote"      \* double quote
BS == "backslash"   \* backslash
NL == "newline"     \* line feed
BQ == "backquote"   \* command substitution quote

\* ------------------------------------------------------------ sequences
\* Concatenation of ss[lo..hi], split in halves to keep the recursion shallow.
RECURSIVE ConcatRange(_, _, _)
ConcatRange(ss, lo, hi) ==
    IF lo > hi THEN << >>
    ELSE IF lo = hi THEN ss[lo]
    ELSE LET mid == (lo + hi) \div 2
         IN  ConcatRange(ss, lo, mid) \o ConcatRange(ss, mid + 1, hi)

Flatten(ss) == ConcatRange(ss, 1, Len(ss))

\* Array.prototype.join
Join(ss, sep) == Flatten([i \in 1..Len(ss) |-> IF i = 1 THEN ss[i] ELSE sep \o ss[i]])

SeqsUpTo(S, n) == UNION { [1..k -> S] : k \in 0..n }

\* String.prototype.includes on token strings: the needle is one token.
Includes(text, needle) == \E i \in 1..Len(text) : text[i] = needle

\* --------------------------------------------------------- gitHubLabels
gitHubLabels ==
    << <<"Bounty">>, <<"Bug">>, <<"dependencies">>, <<"documentation">>,
       <<"Enhancement">>, <<"Good", " ", "First", " ", "Issue">>,
       <<"Help", " ", "Wanted">>, <<"In", " ", "Progress">>, <<"Invalid">>,
       <<"javascript">>, <<"Question">>,
       <<"Reported", " ", "by", " ", "Cline">>, <<"RFR">>, <<"Triaged">>,
       <<"Won", SQ, "t/Unable", " ", "to", " ", "Fix">> >>

LabelVocabulary == { gitHubLabels[i] : i \in 1..Len(gitHubLabels) }

\* ------------------------------------------------------- escapeShellArg
\* arg.replace(/'/g, "'\\''") : every single quote becomes  ' \ ' '
ReplaceQuotes(arg) ==
    Flatten([i \in 1..Len(arg) |->
               IF arg[i] = SQ THEN <<SQ, BS, SQ, SQ>> ELSE <<arg[i]>>])

\* A plausible slip: wrap in quotes without replacing the embedded quotes.
escapeShellArgNoReplace(arg) == <<SQ>> \o arg \o <<SQ>>

escapeShellArg(arg) == <<SQ>> \o ReplaceQuotes(arg) \o <<SQ>>

\* ------------------------------------------ POSIX shell word splitting
\* What /bin/sh (the shell child_process.exec runs the command in) makes of
\* a command line: a list of commands, each a list of words.  A character
\* that the shell would expand or treat as syntax outside single quotes is
\* recorded as the token Expanded, so the word no longer equals its source.
Expanded == "<expanded>"

Blank(c)      == c = " "
CmdBreak(c)   == c \in {";", NL, "|", "&"}
Expanding(c)  == c \in {"$", BQ, "*", "(", ")"}
DqEscapable(c) == c \in {"$", BQ, DQ, BS, NL}

EndWord(st) ==
    IF st.inword
    THEN [st EXCEPT !.words = Append(@, st.cur), !.cur = << >>, !.inword = FALSE]
    ELSE st

EndCmd(st) ==
    LET s1 == EndWord(st)
    IN  IF s1.words = << >> THEN s1
        ELSE [s1 EXCEPT !.cmds = Append(@, s1.words), !.words = << >>]

Lit(st, c) == [st EXCEPT !.cur = Append(@, c), !.inword = TRUE]

ShellStep(st, c) ==
    CASE st.mode = "sq" ->
            IF c = SQ THEN [st EXCEPT !.mode = "plain"] ELSE Lit(st, c)
      [] st.mode = "dq" ->
            IF c = DQ THEN [st EXCEPT !.mode = "plain"]
            ELSE IF c = BS THEN [st EXCEPT !.mode = "dqesc"]
            ELSE IF c \in {"$", BQ} THEN Lit(st, Expanded)
            ELSE Lit(st, c)
      [] st.mode = "dqesc" ->
            IF DqEscapable(c)
            THEN [(IF c = NL THEN st ELSE Lit(st, c)) EXCEPT !.mode = "dq"]
            ELSE [Lit(Lit(st, BS), c) EXCEPT !.mode = "dq"]
      [] st.mode = "esc" ->
            [(IF c = NL THEN st ELSE Lit(st, c)) EXCEPT !.mode = "plain"]
      [] OTHER ->
            IF c = SQ THEN [st EXCEPT !.mode = "sq", !.inword = TRUE]
            ELSE IF c = DQ THEN [st EXCEPT !.mode = "dq", !.inword = TRUE]
            ELSE IF c = BS THEN [st EXCEPT !.mode = "esc"]
            ELSE IF Blank(c) THEN EndWord(st)
            ELSE IF CmdBreak(c) THEN EndCmd(st)
            ELSE IF Expanding(c) THEN Lit(st, Expanded)
            ELSE Lit(st, c)

\* The shell reads s[lo..hi] from state st, left to right.
RECURSIVE ShellRun(_, _, _, _)
ShellRun(st, s, lo, hi) ==
    IF lo > hi THEN st
    ELSE IF lo = hi THEN ShellStep(st, s[lo])
    ELSE LET mid  == (lo + hi) \div 2
             left == ShellRun(st, s, lo, mid)
         IN  \* the test makes TLC compute left before it reads the right half
             IF left.mode = "plain"
             THEN ShellRun(left, s, mid + 1, hi)
             ELSE ShellRun(left, s, mid + 1, hi)

ShellInit == [mode |-> "plain", cur |-> << >>, inword |-> FALSE,
              words |-> << >>, cmds |-> << >>]

\* ok is FALSE when the line ends inside a quote or after a backslash.
ShellParse(line) ==
    LET st == ShellRun(ShellInit, line, 1, Len(line))
    IN  [ok |-> st.mode = "plain", cmds |-> EndCmd(st).cmds]

\* --------------------------------------------------- gh command line
repo == <<"cline/cline">>

GhPrefix(title, body) ==
    <<"gh", " ", "issue", " ", "create", " ", "--repo", " ">>
    \o escapeShellArg(repo) \o <<" ", "--title", " ">> \o escapeShellArg(title)
    \o <<" ", "--body", " ">> \o escapeShellArg(body)

\* ------------------------------------------------------ JavaScript values
\* A value is [t |-> its typeof / kind, v |-> its content]: a string's tokens,
\* an array's elements, << >> for everything else.
Str(x)   == [t |-> "string", v |-> x]
Arr(xs)  == [t |-> "array", v |-> xs]
Undefined == [t |-> "undefined", v |-> << >>]
Null     == [t |-> "null", v |-> << >>]
Num      == [t |-> "number", v |-> << >>]

IsString(x) == x.t = "string"
\* JavaScript truthiness of the values used here
Truthy(x) == CASE x.t \in {"undefined", "null"} -> FALSE
               [] x.t = "string" -> x.v # << >>
               [] OTHER -> TRUE

\* labels passed validation: undefined or an array of strings
LabelStrings(labels) == [i \in 1..Len(labels.v) |-> labels.v[i].v]

BuildGhCommand(title, body, labels) ==
    IF Truthy(labels) /\ Len(labels.v) > 0
    THEN GhPrefix(title, body) \o <<" ", "--label", " ">>
         \o Join([i \in 1..Len(labels.v) |-> escapeShellArg(labels.v[i].v)], <<",">>)
    ELSE GhPrefix(title, body)

\* The argument vector gh is expected to receive.
ExpectedArgv(title, body, labels) ==
    <<  <<"gh">>, <<"issue">>, <<"create">>, <<"--repo">>, repo,
        <<"--title">>, title, <<"--body">>, body >>
    \o (IF labels.t = "array" /\ Len(labels.v) > 0
        THEN << <<"--label">>, Join(LabelStrings(labels), <<",">>) >> ELSE << >>)

\* ------------------------------------------------------ issue body
Bold(words) == <<"*", "*">> \o words \o <<"*", "*">>

FormatBody(version, ideUsed, osPlatform, osRelease, apiProvider, modelName, description) ==
    Bold(<<"Reported", " ", "by:">>)
      \o <<" ", "User", " ", "via", " ", "Cline", " ", "Issue", " ",
           "Reporter", " ", "MCP", NL>>
    \o Bold(<<"Cline", " ", "Version:">>) \o <<" ">> \o version \o <<NL>>
    \o Bold(<<"IDE:">>) \o <<" ">> \o ideUsed \o <<NL>>
    \o Bold(<<"OS:">>) \o <<" ">> \o osPlatform \o <<" ", "(">> \o osRelease
      \o <<")", NL>>
    \o Bold(<<"API", " ", "Provider:">>) \o <<" ">> \o apiProvider \o <<NL>>
    \o Bold(<<"Model:">>) \o <<" ">> \o modelName \o <<NL, NL, "---", NL, NL>>
    \o Bold(<<"Description:">>) \o <<NL>> \o description

\* =====================================================================
\* getApiMetadata
\* =====================================================================
\* A path is a sequence of segments.  A failure is [ok |-> FALSE, error |-> text].
Fail(text) == [ok |-> FALSE, error |-> text]

ideApps == <<"Code", "Cursor", "Windsurf">>

StorageTail == <<"User", "globalStorage", "saoudrizwan.claude-dev", "tasks">>

\* lines 51-103: one candidate directory per IDE, or the error thrown
PossiblePaths(platform, appData, homeDir) ==
    IF platform = "win32" THEN
        IF ~Truthy(appData)
        THEN Fail(<<"APPDATA environment variable is not defined">>)
        ELSE [ok |-> TRUE,
              paths |-> [i \in 1..Len(ideApps) |->
                           appData.v \o <<ideApps[i]>> \o StorageTail]]
    ELSE IF platform = "darwin" THEN
        [ok |-> TRUE,
         paths |-> [i \in 1..Len(ideApps) |->
                      homeDir \o <<"Library", "Application Support", ideApps[i]>>
                      \o StorageTail]]
    ELSE IF platform = "linux" THEN
        [ok |-> TRUE,
         paths |-> [i \in 1..Len(ideApps) |->
                      homeDir \o <<".config", ideApps[i]>> \o StorageTail]]
    ELSE Fail(<<"Unsupported operating system: ", platform>>)

\* ---- directory entry names: sequences of characters
DigitChars == <<"0", "1", "2", "3", "4", "5", "6", "7", "8", "9">>
IsDigit(c) == \E d \in 1..10 : DigitChars[d] = c
DigitVal(c) == (CHOOSE d \in 1..10 : DigitChars[d] = c) - 1

\* /^\d+$/.test(name)
IsNumericName(name) == Len(name) > 0 /\ \A i \in 1..Len(name) : IsDigit(name[i])

\* parseInt(name, 10) of a name of digits
RECURSIVE ParseInt(_)
ParseInt(name) ==
    IF name = << >> THEN 0
    ELSE 10 * ParseInt(SubSeq(name, 1, Len(name) - 1)) + DigitVal(name[Len(name)])

\* Number.prototype.toString of a non-negative integer
RECURSIVE NumToString(_)
NumToString(n) ==
    IF n < 10 THEN <<DigitChars[n + 1]>>
    ELSE NumToString(n \div 10) \o <<DigitChars[(n % 10) + 1]>>

SetMax(S) == CHOOSE x \in S : \A y \in S : y <= x

\* lines 117-119: the numbers of the numeric subdirectories
NumericDirs(entries) ==
    { ParseInt(e.name) : e \in { x \in entries : x.isDir /\ IsNumericName(x.name) } }

\* A plausible slip: the first candidate with a numeric subdirectory wins.
ScanOneFirstWins(acc, i, dir) ==
    IF dir.status # "ok" THEN acc
    ELSE LET numericDirs == NumericDirs(dir.entries)
         IN  IF numericDirs # {} /\ acc.finalBasePath = 0
             THEN [highest |-> SetMax(numericDirs), finalBasePath |-> i]
             ELSE acc

\* lines 109-133, one turn of the loop: acc is [highest, finalBasePath]
\* (finalBasePath 0 is null, else the index of the candidate); dir is the
\* directory at the candidate path: missing, unreadable, or ok with entries.
ScanOne(acc, i, dir) ==
    IF dir.status # "ok" THEN acc   \* stat or readdir throws: continue
    ELSE LET numericDirs == NumericDirs(dir.entries)
         IN  IF numericDirs # {}
             THEN LET currentHighestTaskNumber == SetMax(numericDirs)
                  IN  IF currentHighestTaskNumber > acc.highest
                      THEN [highest |-> currentHighestTaskNumber,
                            finalBasePath |-> i]
                      ELSE acc
             ELSE acc

RECURSIVE ScanFrom(_, _, _)
ScanFrom(acc, i, dirs) ==
    IF i > Len(dirs) THEN acc ELSE ScanFrom(ScanOne(acc, i, dirs[i]), i + 1, dirs)

\* lines 105-133
ScanCandidates(dirs) == ScanFrom([highest |-> -1, finalBasePath |-> 0], 1, dirs)

\* String.prototype.includes(ideName) on a path: some segment holds the name
PathIncludes(path, ideName) == \E k \in 1..Len(path) : path[k] = ideName

\* lines 139-147
IdeUsed(finalBasePath) ==
    IF \E n \in 1..Len(ideApps) : PathIncludes(finalBasePath, ideApps[n])
    THEN ideApps[CHOOSE n \in 1..Len(ideApps) :
                   /\ PathIncludes(finalBasePath, ideApps[n])
                   /\ \A m \in 1..(n - 1) : ~PathIncludes(finalBasePath, ideApps[m])]
    ELSE "Unknown"

\* lines 51-154: everything before the sidecar is read.  env is
\* [platform, appData, homeDir, dirs]; dirs[i] is the directory at candidate i.
LocateTask(env) ==
    LET pp == PossiblePaths(env.platform, env.appData, env.homeDir)
    IN  IF ~pp.ok THEN pp
        ELSE LET r == ScanCandidates(env.dirs)
             IN  IF r.finalBasePath = 0
                 THEN Fail(<<"Could not find any valid task directories">>)
                 ELSE [ok |-> TRUE,
                       candidate |-> r.finalBasePath,
                       highest |-> r.highest,
                       ideUsed |-> IdeUsed(pp.paths[r.finalBasePath]),
                       metadataFilePath |-> pp.paths[r.finalBasePath]
                           \o <<NumToString(r.highest), "task_metadata.json">>]

\* ---- the sidecar: file is [state, usage]; state is "missing" (readFile
\* throws), "garbage" (JSON.parse throws), "null" (the JSON value null) or
\* "object"; usage is the object's model_usage: Undefined, a non-array
\* value, or Arr of entries [ts, model_provider_id, model_id].

\* lines 181-186, one turn of the reduce (latest is << >> for null)
LaterOfLT(latest, current) ==
    IF latest = << >> \/ current.ts < latest[1].ts THEN <<current>> ELSE latest

LaterOf(latest, current) ==
    IF latest = << >> \/ current.ts > latest[1].ts THEN <<current>> ELSE latest

RECURSIVE ReduceLatest(_, _, _)
ReduceLatest(latest, usage, i) ==
    IF i > Len(usage) THEN latest
    ELSE ReduceLatest(LaterOf(latest, usage[i]), usage, i + 1)

LatestEntry(usage) == ReduceLatest(<< >>, usage, 1)

WrapReadError(msg) == Fail(<<"Error reading or parsing metadata file: ">> \o msg)

\* lines 156-206
ReadMetadata(file) ==
    IF file.state = "missing"
    THEN WrapReadError(<<"ENOENT: no such file or directory">>)
    ELSE IF file.state = "garbage"
    THEN WrapReadError(<<"Unexpected token in JSON">>)
    ELSE IF file.state = "null"
    THEN WrapReadError(<<"Cannot read properties of null">>)
    ELSE IF ~Truthy(file.usage) \/ file.usage.t # "array" \/ Len(file.usage.v) = 0
    THEN WrapReadError(<<"Invalid metadata format: model_usage array missing or empty">>)
    ELSE LET latestEntry == LatestEntry(file.usage.v)
         IN  IF \/ latestEntry = << >>
                \/ latestEntry[1].model_provider_id = << >>
                \/ latestEntry[1].model_id = << >>
             THEN WrapReadError(
                    <<"Invalid metadata format: latest entry missing required fields">>)
             ELSE [ok |-> TRUE,
                   apiProvider |-> latestEntry[1].model_provider_id,
                   modelName |-> latestEntry[1].model_id]

\* lines 46-207.  The sidecar read is the one at the winning record's path.
GetApiMetadata(env, file) ==
    LET loc == LocateTask(env)
    IN  IF ~loc.ok THEN loc
        ELSE LET rd == ReadMetadata(file)
             IN  IF ~rd.ok THEN rd
                 ELSE [ok |-> TRUE, apiProvider |-> rd.apiProvider,
                       modelName |-> rd.modelName, ideUsed |-> <<loc.ideUsed>>]

\* ------------------------------------------------ handler: idle values
NoReq      == [name |-> None, isObject |-> FALSE, title |-> Undefined,
               description |-> Undefined, labels |-> Undefined]
NoMeta     == [ok |-> FALSE, error |-> <<"not run">>]
NoResponse == [kind |-> None, code |-> None, isError |-> FALSE, text |-> << >>]

HandlerIdle ==
    /\ pc = "idle" /\ req = NoReq /\ meta = NoMeta /\ probeIdx = 0
    /\ clineVersion = << >> /\ formattedBody = << >> /\ ghCommand = << >>
    /\ log = << >> /\ response = NoResponse

NoArgv   == [ok |-> FALSE, cmds |-> << >>]
EscIdle  == escArg = << >> /\ escCmd = << >> /\ escArgv = NoArgv /\ escPc = None
NotRun   == Fail(<<"not run">>)
NoDir    == [status |-> "missing", entries |-> {}]
NoEnv    == [platform |-> None, appData |-> Undefined, homeDir |-> << >>,
             dirs |-> <<NoDir, NoDir, NoDir>>]
NoFile   == [state |-> "missing", usage |-> Undefined]
ScanIdle == scanEnv = NoEnv /\ scanResult = NotRun
ReadIdle == sidecar = NoFile /\ readResult = NotRun

\* =====================================================================
\* The CallToolRequestSchema handler
\* =====================================================================
\* lines 299-302
IsKnownTool(name) == name \in {"report_cline_issue", "preview_cline_issue"}

\* A plausible slip: the check of the labels is left out.
isValidReportArgsNoLabels(args) ==
    /\ args.isObject
    /\ IsString(args.description)
    /\ IsString(args.title)

\* lines 210-227; args is request.params.arguments
isValidReportArgs(args) ==
    /\ args.isObject
    /\ IsString(args.description)
    /\ IsString(args.title)
    /\ \/ args.labels.t = "undefined"
       \/ /\ args.labels.t = "array"
          /\ \A i \in 1..Len(args.labels.v) : IsString(args.labels.v[i])

McpError(code, text) == [kind |-> "mcp_error", code |-> code, isError |-> FALSE,
                         text |-> text]
Result(isError, text) == [kind |-> "result", code |-> None, isError |-> isError,
                          text |-> text]

\* lines 303-306
UnknownToolError(name) == McpError("MethodNotFound", <<"Unknown tool: ", name>>)

\* lines 310-313
InvalidArgsError(name) ==
    McpError("InvalidParams",
             <<"Invalid arguments for ", name,
               ". Requires: description (string), title (string), labels (string[], optional).">>)

\* lines 332-343
MetadataFailure(errorMessage) ==
    Result(TRUE, <<"Error retrieving API metadata: ">> \o errorMessage
                 \o <<". Please try again or provide apiProvider and modelName manually.">>)

\* A plausible slip: a failed lookup is not returned, the handler goes on.
LookupEndsRequestNever(r) == FALSE

\* lines 327-344: the catch returns, so a failed lookup ends the request
LookupEndsRequest(r) == ~r.ok

\* ---- version probing, lines 346-377
ides == <<"code", "cursor", "windsurf">>

\* line 351
SearchCmd(platform) == IF platform = "win32" THEN "findstr" ELSE "grep"

\* line 357
ProbeCommand(ide, searchCmd) ==
    <<ide, " ", "--list-extensions", " ", "--show-versions", " ", "|", " ",
      searchCmd, " ", "saoudrizwan.claude-dev">>

\* What one probe can give: execAsync rejects (the IDE is not installed, or
\* the search finds nothing and exits 1), or stdout holds lines; a line is
\* [id, version]: the text before and after the "@".
ProbeVersions == { <<"3.17.4">>, <<"3.18.0">> }
ProbeOutcomes ==
    { [failed |-> TRUE, stdout |-> << >>] }
    \cup { [failed |-> FALSE,
            stdout |-> << [id |-> "saoudrizwan.claude-dev-nightly", version |-> <<"0.9">>] >>] }
    \cup { [failed |-> FALSE,
            stdout |-> << [id |-> "saoudrizwan.claude-dev", version |-> v] >>]
          : v \in ProbeVersions }
    \cup { [failed |-> FALSE,
            stdout |-> << [id |-> "saoudrizwan.claude-dev-nightly", version |-> <<"0.9">>],
                          [id |-> "saoudrizwan.claude-dev", version |-> <<"3.16.0">>] >>] }

\* line 360: stdout.match(/saoudrizwan\.claude-dev@([\d.]+)/), << >> for no match
VersionMatch(stdout) ==
    IF \E k \in 1..Len(stdout) : stdout[k].id = "saoudrizwan.claude-dev"
    THEN <<stdout[CHOOSE k \in 1..Len(stdout) :
                    /\ stdout[k].id = "saoudrizwan.claude-dev"
                    /\ \A j \in 1..(k - 1) : stdout[j].id # "saoudrizwan.claude-dev"
                 ].version>>
    ELSE << >>

\* lines 358-364: the probe gave a version, the loop breaks
ProbeFound(outcome) == ~outcome.failed /\ VersionMatch(outcome.stdout) # << >>

\* ---- preview, lines 393-411
\* A plausible slip: the preview test never holds, previews are submitted.
IsPreviewNever(name) == FALSE

\* line 393
IsPreview(name) == name = "preview_cline_issue"

\* JSON.stringify of a string: quoted, with quote, backslash and line feed escaped
JsonString(str) ==
    <<DQ>> \o Flatten([i \in 1..Len(str) |->
                         CASE str[i] = DQ -> <<BS, DQ>>
                           [] str[i] = BS -> <<BS, BS>>
                           [] str[i] = NL -> <<BS, "n">>
                           [] OTHER -> <<str[i]>>]) \o <<DQ>>

\* lines 398-407, labels || []
PreviewText(title, body, labels) ==
    <<"{", "title", ":">> \o JsonString(title)
    \o <<",", "body", ":">> \o JsonString(body)
    \o <<",", "labels", ":", "[">>
    \o (IF Truthy(labels)
        THEN Join([i \in 1..Len(labels.v) |-> JsonString(labels.v[i].v)], <<",">>)
        ELSE << >>)
    \o <<"]", ",", "repository", ":">> \o JsonString(repo) \o <<"}">>

\* ---- running gh, lines 427-508
GhUrl == <<"https://github.com/cline/cline/issues/1">>

\* execAsync resolves with {stdout, stderr}
GhSuccesses ==
    { [failed |-> FALSE, stdout |-> o, stderr |-> e, message |-> << >>]
      : o \in { << >>, GhUrl }, e \in { << >>, <<"Creating issue in cline/cline">> } }

GhStderrs == { << >>, <<"/bin/sh: gh: ", "command not found">>,
               <<"gh: ", "authentication required">>, <<"HTTP 422">>,
               <<"gh not found", ": ", "authentication required">> }
GhErrStdouts == { << >>, <<"partial output">>, <<"authentication required">> }

\* execAsync rejects.  A command that exits non-zero gives an Error whose
\* message is "Command failed: " + command + "\n" + stderr, with the two
\* streams attached; a shell that cannot be spawned gives an Error with a
\* message and empty streams.
GhFailures(command) ==
    { [failed |-> TRUE, stdout |-> o, stderr |-> e,
       message |-> <<"Command failed: ">> \o command \o <<NL>> \o e]
      : o \in GhErrStdouts, e \in GhStderrs }
    \cup { [failed |-> TRUE, stdout |-> << >>, stderr |-> << >>,
            message |-> <<"spawn /bin/sh ENOENT">>] }

GhOutcomes(command) == GhSuccesses \cup GhFailures(command)

\* a || b on strings
Or(a, b) == IF a # << >> THEN a ELSE b

\* A plausible slip: any output on the error stream is an error.
GhResolvedStderrFirst(ghStdout, ghStderr) ==
    IF ghStderr # << >>
    THEN Result(TRUE, <<"GitHub CLI Error: ">> \o ghStderr)
    ELSE Result(FALSE, Or(ghStdout,
                   <<"Issue reported successfully (no stdout from gh).">>))

\* lines 432-458
GhResolved(ghStdout, ghStderr) ==
    IF ghStderr # << >> /\ ghStdout = << >>
    THEN Result(TRUE, <<"GitHub CLI Error: ">> \o ghStderr)
    ELSE Result(FALSE, Or(ghStdout,
                   <<"Issue reported successfully (no stdout from gh).">>))

GhNotFoundText ==
    <<"Error: GitHub CLI (gh) not found. Please install it and authenticate (gh auth login).">>
GhAuthText ==
    <<"Error: GitHub CLI authentication required. Please run gh auth login.">>

\* A plausible slip: the catch rethrows what it does not recognise.
GhRejectedRethrow(error) ==
    LET errorMessage == Or(error.stderr, Or(error.stdout, error.message))
    IN  IF Includes(errorMessage, "gh not found")
           \/ Includes(errorMessage, "command not found")
        THEN Result(TRUE, GhNotFoundText)
        ELSE IF Includes(errorMessage, "authentication required")
        THEN Result(TRUE, GhAuthText)
        ELSE McpError("InternalError", <<"Failed to report issue: ">> \o error.message)

\* lines 459-508
GhRejected(error) ==
    IF error.stderr # << >> \/ error.stdout # << >> \/ error.message # << >>
    THEN LET errorMessage == Or(error.stderr, Or(error.stdout, error.message))
         IN  IF Includes(errorMessage, "gh not found")
                \/ Includes(errorMessage, "command not found")
             THEN Result(TRUE, GhNotFoundText)
             ELSE IF Includes(errorMessage, "authentication required")
             THEN Result(TRUE, GhAuthText)
             ELSE Result(TRUE, <<"Command execution failed: ">> \o errorMessage)
    ELSE McpError("InternalError", <<"Failed to report issue: ">> \o error.message)

\* =====================================================================
\* SpecEscape: escapeShellArg and the command line, against the shell
\* =====================================================================
EscAlphabet == {"a", SQ, " ", ";", BS, "$"}

\* The body a request with description d gets, for fixed metadata.
EscBody(d) == FormatBody(<<"unknown">>, <<"Code">>, <<"linux">>, <<"6.1">>,
                         <<"P">>, <<"M">>, d)

EscInit ==
    /\ escArg \in SeqsUpTo(EscAlphabet, MaxLen)
    /\ escCmd = << >> /\ escArgv = NoArgv /\ escPc = "start"
    /\ HandlerIdle /\ ScanIdle /\ ReadIdle

\* lines 414-418: the command line with escArg as title and as description
EscBuild ==
    /\ escPc = "start"
    /\ escCmd' = BuildGhCommand(escArg, EscBody(escArg), Undefined)
    /\ escPc' = "built"
    /\ UNCHANGED << escArg, escArgv, handlerVars, scanVars, readVars >>

\* line 430: exec hands the line to the shell, which splits it
EscExec ==
    /\ escPc = "built"
    /\ escArgv' = ShellParse(escCmd)
    /\ escPc' = "parsed"
    /\ UNCHANGED << escArg, escCmd, handlerVars, scanVars, readVars >>

EscNext == EscBuild \/ EscExec

SpecEscape == EscInit /\ [][EscNext]_vars

\* C1: for every string s, the shell splits the gh command line built from s
\* into exactly one command whose title argument is s and whose body argument
\* is the body holding s; escapeShellArg(s) alone parses to the one word s.
C1_EscapeRoundTrip ==
    /\ ShellParse(escapeShellArg(escArg)) = [ok |-> TRUE, cmds |-> << << escArg >> >>]
    /\ escPc = "parsed" =>
          /\ escArgv.ok
          /\ escArgv.cmds = << ExpectedArgv(escArg, EscBody(escArg), Undefined) >>

C1_Witness ==
    /\ escPc = "parsed"
    /\ escArg = <<"a", SQ, ";">>
    /\ escArgv.cmds[1][7] = <<"a", SQ, ";">>

\* =====================================================================
\* SpecScan: the candidate scan of getApiMetadata over every file system
\* =====================================================================
HomePlain  == <<"home", "u">>
HomeCursor == <<"home", "Cursor">>   \* a user whose name is an IDE name
AppDataDir == Str(<<"C:", "Users", "u", "AppData", "Roaming">>)

PlatformConfigs ==
    { [platform |-> "win32",   appData |-> Undefined,  homeDir |-> HomePlain],
      [platform |-> "win32",   appData |-> AppDataDir, homeDir |-> HomePlain],
      [platform |-> "darwin",  appData |-> Undefined,  homeDir |-> HomePlain],
      [platform |-> "linux",   appData |-> Undefined,  homeDir |-> HomePlain],
      [platform |-> "linux",   appData |-> Undefined,  homeDir |-> HomeCursor],
      [platform |-> "freebsd", appData |-> Undefined,  homeDir |-> HomePlain] }

\* Names of task directories: 0..MaxTask, and 010 (ten, with a leading zero).
NumericNames == { NumToString(k) : k \in 0..MaxTask } \cup { <<"0", "1", "0">> }

\* What every readable candidate also holds: a file with a numeric name, and
\* a directory whose name only starts with a digit.
Distractors == { [name |-> <<"9", "9">>, isDir |-> FALSE],
                 [name |-> <<"1", "x">>, isDir |-> TRUE] }

DirStates ==
    { [status |-> "missing", entries |-> {}],
      [status |-> "unreadable", entries |-> {}] }
    \cup { [status |-> "ok",
            entries |-> Distractors \cup { [name |-> n, isDir |-> TRUE] : n \in S }]
          : S \in SUBSET NumericNames }

ScanEnvs ==
    { [platform |-> c.platform, appData |-> c.appData, homeDir |-> c.homeDir,
       dirs |-> d] : c \in PlatformConfigs, d \in [1..Len(ideApps) -> DirStates] }

ScanInit ==
    /\ scanEnv \in ScanEnvs /\ scanResult = NotRun
    /\ HandlerIdle /\ EscIdle /\ ReadIdle

\* getApiMetadata up to the sidecar path, on the file system scanEnv
ScanRun ==
    /\ scanResult = NotRun
    /\ scanResult' = LocateTask(scanEnv)
    /\ UNCHANGED << scanEnv, handlerVars, escVars, readVars >>

ScanNext == ScanRun

SpecScan == ScanInit /\ [][ScanNext]_vars

\* The numbers of the numeric subdirectories of candidate i, if readable.
TaskNumbersOf(dir) ==
    IF dir.status = "ok"
    THEN { ParseInt(e.name) : e \in { x \in dir.entries :
                                        x.isDir /\ IsNumericName(x.name) } }
    ELSE {}

AllTaskNumbers(dirs) == UNION { TaskNumbersOf(dirs[i]) : i \in 1..Len(dirs) }

HasCandidates(env) == PossiblePaths(env.platform, env.appData, env.homeDir).ok

\* C7: whatever the three candidate directories hold, the locator selects the
\* record whose number is the maximum over the numeric subdirectories of all
\* readable candidates, from a candidate that holds it; missing, unreadable
\* and numeric-free candidates are skipped; and it fails with "Could not find
\* any valid task directories" exactly when no candidate holds one.
C7_CrossDirectoryMax ==
    (scanResult # NotRun /\ HasCandidates(scanEnv)) =>
        LET all == AllTaskNumbers(scanEnv.dirs)
        IN  /\ (all = {}) <=>
                 (scanResult = Fail(<<"Could not find any valid task directories">>))
            /\ (all # {}) =>
                 /\ scanResult.ok
                 /\ scanResult.highest = SetMax(all)
                 /\ scanResult.highest \in TaskNumbersOf(scanEnv.dirs[scanResult.candidate])

C7_Witness ==
    /\ scanResult # NotRun /\ scanResult.ok
    /\ scanEnv.dirs[1].status = "ok" /\ TaskNumbersOf(scanEnv.dirs[1]) = {0, 2}
    /\ TaskNumbersOf(scanEnv.dirs[2]) = {1, 10}
    /\ scanEnv.dirs[3].status = "unreadable"
    /\ scanResult.candidate = 2 /\ scanResult.highest = 10

\* =====================================================================
\* SpecSidecar: reading task_metadata.json, over every sidecar
\* =====================================================================
EntryKinds ==
    { [p |-> <<"P">>, m |-> <<"M">>], [p |-> <<"Q">>, m |-> <<"N">>],
      [p |-> << >>,   m |-> <<"M">>], [p |-> <<"P">>, m |-> << >>] }

UsageEntries ==
    { [ts |-> t, model_provider_id |-> k.p, model_id |-> k.m]
      : t \in 1..MaxTs, k \in EntryKinds }

SidecarFiles ==
    { [state |-> st, usage |-> Undefined] : st \in {"missing", "garbage", "null"} }
    \cup { [state |-> "object", usage |-> u]
           : u \in {Undefined, Null, Str(<<"x">>), Arr(<< >>)} }
    \cup { [state |-> "object", usage |-> Arr(l)]
           : l \in SeqsUpTo(UsageEntries, MaxEntries) \ {<< >>} }

ReadInit ==
    /\ sidecar \in SidecarFiles /\ readResult = NotRun
    /\ HandlerIdle /\ EscIdle /\ ScanIdle

\* lines 156-206 on the file sidecar
ReadRun ==
    /\ readResult = NotRun
    /\ readResult' = ReadMetadata(sidecar)
    /\ UNCHANGED << sidecar, handlerVars, escVars, scanVars >>

ReadNext == ReadRun

SpecSidecar == ReadInit /\ [][ReadNext]_vars

NonEmptyUsage(file) ==
    file.state = "object" /\ file.usage.t = "array" /\ Len(file.usage.v) > 0

\* C8: when model_usage is a non-empty list and the locator succeeds, the
\* provider and model returned are those of an entry whose ts is at least the
\* ts of every entry of the list, whatever the order of the entries.
C8_LatestEntry ==
    (readResult # NotRun /\ NonEmptyUsage(sidecar) /\ readResult.ok) =>
        \E i \in 1..Len(sidecar.usage.v) :
            /\ sidecar.usage.v[i].model_provider_id = readResult.apiProvider
            /\ sidecar.usage.v[i].model_id = readResult.modelName
            /\ \A j \in 1..Len(sidecar.usage.v) :
                    sidecar.usage.v[i].ts >= sidecar.usage.v[j].ts

C8_Witness ==
    /\ sidecar.state = "object"
    /\ sidecar.usage =
         Arr(<< [ts |-> 1, model_provider_id |-> <<"Q">>, model_id |-> <<"N">>],
                [ts |-> 5, model_provider_id |-> <<"P">>, model_id |-> <<"M">>],
                [ts |-> 3, model_provider_id |-> <<"Q">>, model_id |-> <<"N">>] >>)
    /\ readResult = [ok |-> TRUE, apiProvider |-> <<"P">>, modelName |-> <<"M">>]

\* =====================================================================
\* Spec: the handler, one request after another
\* =====================================================================
ToolNames == {"preview_cline_issue", "report_cline_issue", "delete_cline_issue"}

\* a phrase the catch block searches for is one token
Titles == { Str(<<"T">>),
            Str(<<"it", SQ, "s", ";", " ", "command not found">>),
            Num, Undefined }
Descriptions == { Str(<<"D", NL, SQ, "$", "HOME">>), Undefined }

BugLabel     == gitHubLabels[2]
WontFixLabel == gitHubLabels[15]
LabelArgs ==
    { Undefined, Null, Str(BugLabel), Arr(<<Num>>), Arr(<<Str(BugLabel), Null>>),
      Arr(<< >>), Arr(<<Str(BugLabel)>>),
      Arr(<<Str(BugLabel), Str(WontFixLabel)>>),
      Arr(<<Str(<<"NotALabel">>)>>),
      Arr(<<Str(BugLabel), Str(<<"wontfix">>)>>) }

\* request.params as the protocol library hands it to the handler: a name,
\* and arguments that are an object or absent
Requests ==
    { [name |-> n, isObject |-> TRUE, title |-> t, description |-> d, labels |-> l]
      : n \in ToolNames, t \in Titles, d \in Descriptions, l \in LabelArgs }
    \cup { [name |-> n, isObject |-> FALSE, title |-> Undefined,
            description |-> Undefined, labels |-> Undefined] : n \in ToolNames }

\* The file systems and sidecars a request may find.
TaskDir(names) == [status |-> "ok",
                   entries |-> Distractors \cup { [name |-> n, isDir |-> TRUE] : n \in names }]
HandlerDirStates ==
    { [status |-> "missing", entries |-> {}], [status |-> "unreadable", entries |-> {}],
      TaskDir({}), TaskDir({<<"1">>}), TaskDir({<<"0">>, <<"2">>}) }
HandlerEnvs ==
    { [platform |-> c.platform, appData |-> c.appData, homeDir |-> c.homeDir,
       dirs |-> d] : c \in PlatformConfigs, d \in [1..Len(ideApps) -> HandlerDirStates] }

UsageEntry(t, p, m) == [ts |-> t, model_provider_id |-> p, model_id |-> m]
HandlerFiles ==
    { [state |-> st, usage |-> Undefined] : st \in {"missing", "garbage", "null"} }
    \cup { [state |-> "object", usage |-> u]
           : u \in { Undefined, Str(<<"x">>), Arr(<< >>),
                     Arr(<<UsageEntry(1, <<"P">>, <<"M">>)>>),
                     Arr(<<UsageEntry(1, << >>, <<"M">>)>>),
                     Arr(<<UsageEntry(1, <<"P">>, << >>)>>),
                     Arr(<<UsageEntry(2, <<"Q">>, <<"N">>),
                           UsageEntry(1, <<"P">>, <<"M">>)>>) } }

osRelease == <<"6.1.0">>

\* What the handler keeps of the lookup: the result and the OS strings
\* (lines 322-331); a field that was never assigned prints as "undefined".
MetaOf(r, platform) ==
    [ok |-> r.ok,
     error |-> IF r.ok THEN << >> ELSE r.error,
     apiProvider |-> IF r.ok THEN r.apiProvider ELSE <<Undef>>,
     modelName |-> IF r.ok THEN r.modelName ELSE <<Undef>>,
     ideUsed |-> IF r.ok THEN r.ideUsed ELSE <<Undef>>,
     osPlatform |-> <<platform>>,
     osRelease |-> osRelease]

Event(kind, ide, cmd, out) == [kind |-> kind, ide |-> ide, cmd |-> cmd, out |-> out]
NoOut == [failed |-> FALSE, stdout |-> << >>]

Init == HandlerIdle /\ EscIdle /\ ScanIdle /\ ReadIdle

\* a tools/call request arrives (line 297)
Request ==
    /\ pc = "idle"
    /\ \E r \in Requests : req' = r
    /\ pc' = "received"
    /\ meta' = NoMeta /\ probeIdx' = 0 /\ clineVersion' = << >>
    /\ formattedBody' = << >> /\ ghCommand' = << >> /\ log' = << >>
    /\ response' = NoResponse
    /\ UNCHANGED << escVars, scanVars, readVars >>

\* lines 299-307
CheckName ==
    /\ pc = "received"
    /\ IF IsKnownTool(req.name)
       THEN pc' = "checked" /\ UNCHANGED response
       ELSE pc' = "done" /\ response' = UnknownToolError(req.name)
    /\ UNCHANGED << req, meta, probeIdx, clineVersion, formattedBody, ghCommand,
                    log, escVars, scanVars, readVars >>

\* lines 309-318
ValidateArgs ==
    /\ pc = "checked"
    /\ IF isValidReportArgs(req)
       THEN pc' = "valid" /\ UNCHANGED response
       ELSE pc' = "done" /\ response' = InvalidArgsError(req.name)
    /\ UNCHANGED << req, meta, probeIdx, clineVersion, formattedBody, ghCommand,
                    log, escVars, scanVars, readVars >>

\* lines 320-347: the OS strings, getApiMetadata, and its catch
Locate ==
    /\ pc = "valid"
    /\ \E env \in HandlerEnvs, file \in HandlerFiles :
          LET r == GetApiMetadata(env, file)
          IN  /\ meta' = MetaOf(r, env.platform)
              /\ log' = log \o <<Event("os", None, << >>, NoOut)>>
                        \o (IF HasCandidates(env)
                            THEN <<Event("fs", None, << >>, NoOut)>> ELSE << >>)
              /\ IF LookupEndsRequest(r)
                 THEN /\ response' = MetadataFailure(r.error)
                      /\ pc' = "done"
                      /\ UNCHANGED << probeIdx, clineVersion >>
                 ELSE /\ pc' = "probing"
                      /\ probeIdx' = 1
                      /\ clineVersion' = <<"unknown">>
                      /\ UNCHANGED response
    /\ UNCHANGED << req, formattedBody, ghCommand, escVars, scanVars, readVars >>

\* A plausible slip: no break, the loop goes on after a version was found.
LoopBreaksNever(found) == FALSE

\* lines 361-364
LoopBreaks(found) == found

\* lines 355-369, one turn of the loop: one await of execAsync
Probe ==
    /\ pc = "probing"
    /\ probeIdx \in 1..Len(ides)
    /\ \E o \in ProbeOutcomes :
          LET found == ProbeFound(o)
          IN  /\ log' = Append(log,
                     Event("probe", ides[probeIdx],
                           ProbeCommand(ides[probeIdx], SearchCmd(meta.osPlatform[1])), o))
              /\ clineVersion' = IF found THEN VersionMatch(o.stdout)[1]
                                 ELSE clineVersion
              /\ IF LoopBreaks(found) \/ probeIdx = Len(ides)
                 THEN pc' = "format" /\ UNCHANGED probeIdx
                 ELSE pc' = "probing" /\ probeIdx' = probeIdx + 1
    /\ UNCHANGED << req, meta, formattedBody, ghCommand, response,
                    escVars, scanVars, readVars >>

\* lines 379-411: the body, and the preview's return
Format ==
    /\ pc = "format"
    /\ LET body == FormatBody(clineVersion, meta.ideUsed, meta.osPlatform,
                              meta.osRelease, meta.apiProvider, meta.modelName,
                              req.description.v)
       IN  /\ formattedBody' = body
           /\ IF IsPreview(req.name)
              THEN /\ response' = Result(FALSE, PreviewText(req.title.v, body, req.labels))
                   /\ pc' = "done"
              ELSE pc' = "build" /\ UNCHANGED response
    /\ UNCHANGED << req, meta, probeIdx, clineVersion, ghCommand, log,
                    escVars, scanVars, readVars >>

\* lines 413-425
BuildCommand ==
    /\ pc = "build"
    /\ ghCommand' = BuildGhCommand(req.title.v, formattedBody, req.labels)
    /\ pc' = "exec"
    /\ UNCHANGED << req, meta, probeIdx, clineVersion, formattedBody, log, response,
                    escVars, scanVars, readVars >>

\* lines 427-508: gh runs once; its result or its failure becomes the response
ExecGh ==
    /\ pc = "exec"
    /\ \E o \in GhOutcomes(ghCommand) :
          /\ log' = Append(log, Event("gh", None, ghCommand, o))
          /\ response' = IF o.failed THEN GhRejected(o)
                         ELSE GhResolved(o.stdout, o.stderr)
    /\ pc' = "done"
    /\ UNCHANGED << req, meta, probeIdx, clineVersion, formattedBody, ghCommand,
                    escVars, scanVars, readVars >>

\* the response is sent; nothing of the request is kept (no shared state)
Reply ==
    /\ pc = "done"
    /\ pc' = "idle" /\ req' = NoReq /\ meta' = NoMeta /\ probeIdx' = 0
    /\ clineVersion' = << >> /\ formattedBody' = << >> /\ ghCommand' = << >>
    /\ log' = << >> /\ response' = NoResponse
    /\ UNCHANGED << escVars, scanVars, readVars >>

Next == Request \/ CheckName \/ ValidateArgs \/ Locate \/ Probe \/ Format
        \/ BuildCommand \/ ExecGh \/ Reply

Spec == Init /\ [][Next]_vars

\* ---------------------------------------------------------------------
\* What the claims speak of
\* ---------------------------------------------------------------------
EventsOf(kind) == SelectSeq(log, LAMBDA e : e.kind = kind)
NoGhRun == EventsOf("gh") = << >> /\ ghCommand = << >>

\* text holds part as a contiguous piece
ContainsSeq(text, part) ==
    \E k \in 0..(Len(text) - Len(part)) : SubSeq(text, k + 1, k + Len(part)) = part

NameKnown == req.name \in {"preview_cline_issue", "report_cline_issue"}

\* title or description not a string, or labels present but not a sequence
\* of strings
ArgsMalformed ==
    \/ req.title.t # "string"
    \/ req.description.t # "string"
    \/ /\ req.labels.t # "undefined"
       /\ ~(/\ req.labels.t = "array"
            /\ \A i \in 1..Len(req.labels.v) : req.labels.v[i].t = "string")

HasForeignLabel ==
    /\ ~ArgsMalformed
    /\ req.labels.t = "array"
    /\ \E i \in 1..Len(req.labels.v) : req.labels.v[i].v \notin LabelVocabulary

\* C2: a request whose labels hold a string outside gitHubLabels is rejected
\* and no gh command is built or run for it; labels inside the vocabulary
\* reach gh unchanged, comma-joined after --label.
C2_ForeignLabelsRejected ==
    /\ (NameKnown /\ HasForeignLabel) =>
          /\ NoGhRun
          /\ pc \in {"received", "checked", "done"}
          /\ pc = "done" => response.kind = "mcp_error"
    /\ (pc = "exec" /\ req.labels.t = "array" /\ Len(req.labels.v) > 0
          /\ ~HasForeignLabel) =>
          LET argv == ShellParse(ghCommand).cmds[1]
          IN  /\ argv[Len(argv) - 1] = <<"--label">>
              /\ argv[Len(argv)] = Join(LabelStrings(req.labels), <<",">>)

\* C3 as stated: handling a preview starts no external process at all.
C3_PreviewStartsNoProcess ==
    req.name = "preview_cline_issue" =>
        /\ EventsOf("probe") = << >>
        /\ EventsOf("gh") = << >>

\* C3, amended: handling a preview never builds or runs the gh command; the
\* only processes it starts are the IDE version probes, and those only after
\* the metadata lookup succeeded.
C3_PreviewNeverRunsGh ==
    req.name = "preview_cline_issue" =>
        /\ NoGhRun
        /\ pc \notin {"build", "exec"}
        /\ EventsOf("probe") # << >> => meta.ok
        /\ (pc = "done" /\ meta.ok) =>
              /\ response.kind = "result" /\ ~response.isError
              /\ EventsOf("probe") # << >>

C3_Witness ==
    /\ req.name = "preview_cline_issue" /\ pc = "done"
    /\ response.kind = "result" /\ ~response.isError
    /\ Len(EventsOf("probe")) = 2
    /\ EventsOf("gh") = << >>

\* C4: whenever the metadata lookup fails, whatever the reason, the handler
\* returns a normal response flagged isError whose text embeds the locator's
\* message; no version probe and no gh command is run, and no protocol-level
\* error is raised.
C4_MetadataFailureShortCircuit ==
    (meta # NoMeta /\ ~meta.ok) =>
        /\ pc = "done"
        /\ response.kind = "result" /\ response.isError
        /\ response.text[1] = "Error retrieving API metadata: "
        /\ ContainsSeq(response.text, meta.error)
        /\ EventsOf("probe") = << >>
        /\ NoGhRun

C4_Witness ==
    /\ pc = "done" /\ req.name = "report_cline_issue"
    /\ ~meta.ok
    /\ meta.error = <<"Error reading or parsing metadata file: ",
                       "Invalid metadata format: latest entry missing required fields">>
    /\ response.isError

\* C5: when gh completes without an execution failure, the response is its
\* standard output, unmodified and unflagged, if that is non-empty whatever
\* the error stream holds; flagged isError with the error stream's text if
\* standard output is empty and the error stream is not; and the fixed
\* success message, unflagged, if both are empty.
C5_SubmitClassification ==
    \A i \in 1..Len(log) :
        (log[i].kind = "gh" /\ ~log[i].out.failed) =>
            LET o == log[i].out
            IN  /\ pc = "done" /\ response.kind = "result"
                /\ o.stdout # << >> =>
                      response.text = o.stdout /\ ~response.isError
                /\ (o.stdout = << >> /\ o.stderr # << >>) =>
                      response.isError /\ ContainsSeq(response.text, o.stderr)
                /\ (o.stdout = << >> /\ o.stderr = << >>) =>
                      /\ ~response.isError
                      /\ response.text =
                           <<"Issue reported successfully (no stdout from gh).">>

C5_Witness ==
    /\ pc = "done" /\ Len(EventsOf("gh")) = 1
    /\ ~EventsOf("gh")[1].out.failed
    /\ EventsOf("gh")[1].out.stdout = GhUrl
    /\ EventsOf("gh")[1].out.stderr # << >>
    /\ response.text = GhUrl /\ ~response.isError

\* C6: a request with an unknown operation name is rejected with
\* MethodNotFound, one with malformed arguments with InvalidParams, before
\* any OS query, file system read, version probe or gh run; and no such work
\* is ever done for a request that has not passed both checks.
C6_RejectedBeforeWork ==
    /\ (pc \notin {"idle", "received"} /\ ~NameKnown) =>
          /\ pc = "done" /\ log = << >> /\ NoGhRun /\ meta = NoMeta
          /\ response.kind = "mcp_error" /\ response.code = "MethodNotFound"
    /\ (pc \notin {"idle", "received", "checked"} /\ NameKnown /\ ArgsMalformed) =>
          /\ pc = "done" /\ log = << >> /\ NoGhRun /\ meta = NoMeta
          /\ response.kind = "mcp_error" /\ response.code = "InvalidParams"
    /\ (log # << >> \/ ghCommand # << >> \/ meta # NoMeta) =>
          NameKnown /\ ~ArgsMalformed

C6_Witness ==
    /\ pc = "done" /\ req.name = "report_cline_issue"
    /\ req.title.t = "string" /\ req.description.t = "string"
    /\ req.labels = Arr(<<Str(BugLabel), Null>>)
    /\ response.code = "InvalidParams" /\ log = << >>

\* the text the catch block inspects: error stream, else standard output,
\* else the error's message
ErrorText(o) == IF o.stderr # << >> THEN o.stderr
                ELSE IF o.stdout # << >> THEN o.stdout ELSE o.message

\* C9: when running gh fails, gh was run exactly once and the handler returns
\* a normal response flagged isError, never a protocol-level error: the
\* "gh not found" remediation if the error text holds a binary-not-found
\* phrase, else the "authentication required" remediation if it holds that
\* phrase, else the raw error text as a generic failure.
C9_ExecFailureConversion ==
    \A i \in 1..Len(log) :
        (log[i].kind = "gh" /\ log[i].out.failed) =>
            LET o == log[i].out
            IN  /\ Len(EventsOf("gh")) = 1
                /\ pc = "done"
                /\ response.kind = "result" /\ response.isError
                /\ IF \E k \in 1..Len(ErrorText(o)) :
                         ErrorText(o)[k] \in {"gh not found", "command not found"}
                   THEN response.text = GhNotFoundText
                   ELSE IF \E k \in 1..Len(ErrorText(o)) :
                              ErrorText(o)[k] = "authentication required"
                   THEN response.text = GhAuthText
                   ELSE response.text =
                          <<"Command execution failed: ">> \o ErrorText(o)

C9_Witness ==
    /\ pc = "done" /\ Len(EventsOf("gh")) = 1
    /\ EventsOf("gh")[1].out.failed
    /\ EventsOf("gh")[1].out.stderr = <<"HTTP 422">>
    /\ response = Result(TRUE, <<"Command execution failed: ", "HTTP 422">>)

\* the version a probe's output yields: that of its first line for the
\* extension, << >> when the probe failed or no line is for the extension
Yields(o) ==
    IF o.failed \/ \A k \in 1..Len(o.stdout) : o.stdout[k].id # "saoudrizwan.claude-dev"
    THEN << >>
    ELSE LET first == CHOOSE k \in 1..Len(o.stdout) :
                         /\ o.stdout[k].id = "saoudrizwan.claude-dev"
                         /\ \A j \in 1..(k - 1) :
                               o.stdout[j].id # "saoudrizwan.claude-dev"
         IN  o.stdout[first].version

\* C10: after a successful lookup the IDEs are probed one at a time in the
\* order code, cursor, windsurf; a later IDE is probed only if every earlier
\* probe failed or yielded no version; none is probed after the first that
\* yields one; and for every combination of outcomes the request goes on to
\* format the body with the first version found, or "unknown", with no error
\* response caused by probing.
C10_ProbingSequential ==
    LET P == EventsOf("probe")
    IN  /\ Len(P) <= 3
        /\ \A k \in 1..Len(P) : P[k].ide = <<"code", "cursor", "windsurf">>[k]
        /\ \A k \in 1..(Len(P) - 1) : Yields(P[k].out) = << >>
        /\ Len(P) > 0 => meta.ok
        /\ pc = "probing" =>
              /\ response = NoResponse
              /\ Len(P) < 3
              /\ \A k \in 1..Len(P) : Yields(P[k].out) = << >>
        /\ (pc \in {"format", "build", "exec"} \/ (pc = "done" /\ meta.ok)) =>
              /\ Len(P) >= 1
              /\ Yields(P[Len(P)].out) # << >> =>
                    clineVersion = Yields(P[Len(P)].out)
              /\ Yields(P[Len(P)].out) = << >> =>
                    Len(P) = 3 /\ clineVersion = <<"unknown">>
        /\ pc = "format" => response = NoResponse
        /\ (pc \in {"build", "exec"} \/ (pc = "done" /\ meta.ok)) =>
              ContainsSeq(formattedBody,
                          <<"Version:", "*", "*", " ">> \o clineVersion \o <<NL>>)

C10_Witness ==
    LET P == EventsOf("probe")
    IN  /\ pc = "format" /\ Len(P) = 3
        /\ P[1].out.failed
        /\ ~P[2].out.failed /\ Yields(P[2].out) = << >>
        /\ Yields(P[3].out) = <<"3.17.4">>
        /\ clineVersion = <<"3.17.4">>

\* C11: whenever the locator succeeds, the IDE label it returns is the IDE
\* product name from which the selected candidate directory was built,
\* whatever the home directory or APPDATA root (also one that holds an IDE
\* name itself); on a tie for the highest record number it is the label of
\* the candidate whose directory is read.
C11_IdeLabelAgrees ==
    (scanResult # NotRun /\ scanResult.ok) =>
        /\ scanResult.ideUsed = ideApps[scanResult.candidate]
        /\ scanResult.metadataFilePath =
             PossiblePaths(scanEnv.platform, scanEnv.appData,
                           scanEnv.homeDir).paths[scanResult.candidate]
             \o <<NumToString(scanResult.highest), "task_metadata.json">>

====
